---------------------------- MODULE Spec2Model ----------------------------
(***************************************************************************)
(* SaveMyPlants: the polling tick (checkAllLocationsWeather), its location *)
(* grouping, the forecast cache in front of the weather provider, the      *)
(* forecast analysis and the notification records written by               *)
(* processLocationForecast.                                                *)
(*                                                                         *)
(* Units.  Latitude and longitude are integers in thousandths of a degree. *)
(* Time is an integer number of hours since midnight of day 0; a day has   *)
(* DayLen hours.  Temperatures are integers in degrees Celsius.            *)
(***************************************************************************)
EXTENDS Integers, Sequences, FiniteSets, TLC

(***************************************************************************)
(* Program constants (.env defaults read by the source).                   *)
(***************************************************************************)
\* TEMP_THRESHOLD, degrees Celsius
TEMP_THRESHOLD == 0
\* WARNING_TIME, hours
WARNING_TIME == 6
\* GEOCACHE_EXPIRY: 3600000 ms, in hours
GEOCACHE_EXPIRY == 1
\* hours of a calendar day (the date part of a timestamp changes every DayLen)
DayLen == 24
\* metres of one degree of arc on geolib's sphere (radius 6378137 m), rounded
MetresPerDegree == 111319
\* hours between two points of a provider forecast ("3-hour intervals")
ForecastStep == 3
\* char codes of the separators of the two timestamp formats
CharT == 84
CharSpace == 32

(***************************************************************************)
(* Bounds of the model.                                                    *)
(***************************************************************************)
\* locations registered in a grouping run (SpecGroup)
MaxLocations == 3
\* locations registered while ticks run (Spec)
MaxTickLocations == 2
\* polling ticks started in one behaviour
MaxRuns == 3
\* rows of the notifications table: a tick that would write one more waits
MaxNotifications == 3
\* the clock starts at StartHour and is advanced MaxAdvances times by ClockStep
StartHour == 20
MaxAdvances == 1
ClockStep == 6
\* points of a provider forecast
ForecastLen == 2
\* runs of cleanupWeatherCache
MaxSweeps == 2
\* while the callers outside the ticks run, the clock starts at FirstHour (two
\* hours before midnight) and is advanced MaxHours times by one hour
FirstHour == 22
MaxHours == 2
\* analyzeForecast calls on one forecast object
MaxAnalyses == 2
\* times the process is stopped and started again
MaxRestarts == 1

\* latitudes (thousandths of a degree) locations are registered at: 0 and 4 share
\* the two-decimal key "0.00" and are 445 m apart; 0, 60 and 120 have three
\* different keys and are 6679 m apart, 13358 m end to end
Lats == {0, 4, 60, 120}
\* the latitudes among them registered while ticks run (Spec)
TickLats == {0, 60}
\* every location lies on the meridian of longitude 0
Lons == {0}
\* configured values of GEOCACHE_DISTANCE (metres): a small one and the default
Radii == {300, 10000}
\* temperatures of forecast points
Temps == {-1, 2}
\* temperatures of the points of an analysed list: below, at and above the
\* threshold
AnalyzeTemps == {-1, 0, 2}
\* messages of the errors a provider call fails with
ProviderErrors == {"timeout of 0ms exceeded", "Request failed with status code 500"}

VARIABLES
  locations,          \* the locations table, in rowid order
  GEOCACHE_DISTANCE,  \* the configured cache radius, metres
  now,                \* the wall clock, hours
  cache,              \* the weather_cache table, in rowid order
  notifications,      \* the notifications table, in rowid (id) order
  tick,               \* per polling tick in flight: its position and locals
  runs,               \* polling ticks started so far
  call,               \* per caller of getForecast outside a tick: its call
  puts,               \* observation: the last upsert of those calls per coordinate
  sweeps,             \* observation: runs of cleanupWeatherCache so far
  forecastData,       \* the list of the forecast object a caller analyses
  analyses,           \* observation: the analyzeForecast calls on it, in order
  morning,            \* the run of sendMorningSummaries: its position and locals
  removed,            \* observation: the location ids /remove was asked to delete
  startup             \* the process' start: processAllPendingNotifications

vars == <<locations, GEOCACHE_DISTANCE, now, cache, notifications, tick, runs,
          call, puts, sweeps, forecastData, analyses, morning, removed, startup>>

\* the state of the callers of getForecast and analyzeForecast outside a tick,
\* of sendMorningSummaries, of the bot's /remove command and of main
clientVars == <<call, puts, sweeps, forecastData, analyses, morning, removed,
               startup>>

\* the immediate initial check and the scheduled job
Procs == {1, 2}

(***************************************************************************)
(* Helpers.                                                                *)
(***************************************************************************)
Abs(x) == IF x < 0 THEN -x ELSE x

\* lexicographic s < t for equally long sequences of integers
RECURSIVE LexLess(_, _)
LexLess(s, t) ==
  IF s = <<>> \/ t = <<>> THEN FALSE
  ELSE IF Head(s) # Head(t) THEN Head(s) < Head(t)
  ELSE LexLess(Tail(s), Tail(t))

\* new Date(t).toISOString(): "YYYY-MM-DDTHH:..." as <<date, separator, hour>>
toISOString(t) == <<t \div DayLen, CharT, t % DayLen>>

\* SQLite datetime('now'): "YYYY-MM-DD HH:..." as <<date, separator, hour>>
datetimeNow == <<now \div DayLen, CharSpace, now % DayLen>>

(***************************************************************************)
(* Geometry.                                                               *)
(***************************************************************************)
\* Number.prototype.toFixed(2) of a coordinate >= 0, as hundredths of a degree
\* (no coordinate of Lats lies half-way between two hundredths)
toFixed2(x) == (x + 5) \div 10

\* geolib.getDistance for two points of one meridian: the arc, rounded to 1 m
getDistance(a, b) ==
  (MetresPerDegree * Abs(a.latitude - b.latitude) + 500) \div 1000

\* the key of checkedCoordinates
CoordKey(location) == <<toFixed2(location.latitude), toFixed2(location.longitude)>>

\* findNearbyLocations: every row of allLocations within maxDistance of c, in
\* the order of allLocations (the rows without the distance the code adds)
findNearbyLocations(c, maxDistance, allLocations) ==
  SelectSeq(allLocations, LAMBDA l : getDistance(c, l) <= maxDistance)

\* the grouping loop of checkAllLocationsWeather from position i on
RECURSIVE GroupFrom(_, _, _, _)
GroupFrom(i, checkedCoordinates, allLocations, radius) ==
  IF i > Len(allLocations) THEN <<>>
  ELSE LET location == allLocations[i]
           key      == CoordKey(location)
           nearby   == findNearbyLocations(location, radius, allLocations)
       IN IF key \in checkedCoordinates
          THEN GroupFrom(i + 1, checkedCoordinates, allLocations, radius)
          ELSE (IF Len(nearby) > 0 THEN <<nearby>> ELSE <<>>)
               \o GroupFrom(i + 1, checkedCoordinates \cup {key}, allLocations, radius)

\* locationGroups of checkAllLocationsWeather
LocationGroups(allLocations, radius) == GroupFrom(1, {}, allLocations, radius)


(***************************************************************************)
(* Forecast analysis.  A forecast list is a sequence of points             *)
(* [dt, temp]; an absent value (undefined, null) is the empty sequence and *)
(* a present one a one-element sequence.                                   *)
(***************************************************************************)
\* insert point x into the dt-sorted list s after every point with dt <= x.dt
RECURSIVE InsertByDt(_, _)
InsertByDt(x, s) ==
  IF s = <<>> THEN <<x>>
  ELSE IF x.dt < Head(s).dt THEN <<x>> \o s
  ELSE <<Head(s)>> \o InsertByDt(x, Tail(s))

\* list.sort((a, b) => a.dt - b.dt): a stable sort by dt
RECURSIVE SortByDt(_)
SortByDt(list) ==
  IF list = <<>> THEN <<>>
  ELSE InsertByDt(list[Len(list)], SortByDt(SubSeq(list, 1, Len(list) - 1)))

\* FirstFreezeFrom with the comparison temp < TEMP_THRESHOLD
RECURSIVE FirstFreezeBelow(_, _)
FirstFreezeBelow(list, i) ==
  IF i > Len(list) THEN 0
  ELSE IF list[i].temp < TEMP_THRESHOLD THEN i
  ELSE FirstFreezeBelow(list, i + 1)

\* FirstFreezeFrom without the guard of line 122: a later point at or below
\* the threshold replaces an earlier one
RECURSIVE LastFreezeFrom(_, _)
LastFreezeFrom(list, i) ==
  IF i > Len(list) THEN 0
  ELSE LET later == LastFreezeFrom(list, i + 1)
       IN IF later # 0 THEN later
          ELSE IF list[i].temp <= TEMP_THRESHOLD THEN i
          ELSE 0

\* index of the first point of list at or below the threshold, 0 if none
RECURSIVE FirstFreezeFrom(_, _)
FirstFreezeFrom(list, i) ==
  IF i > Len(list) THEN 0
  ELSE IF list[i].temp <= TEMP_THRESHOLD THEN i
  ELSE FirstFreezeFrom(list, i + 1)

\* analyzeForecast without line 119: allClear is cleared by the first point only
analyzeForecastFirstPointOnly(list0, t) ==
  LET list     == SortByDt(list0)
      below    == list # <<>> /\ list[1].temp <= TEMP_THRESHOLD
      f        == FirstFreezeFrom(list, 1)
      until    == list[f].dt - t
      tomorrow == (t \div DayLen + 1) * DayLen
  IN [ currentTemp         |-> IF list = <<>> THEN <<>> ELSE <<list[1].temp>>,
       isBelowFreezing     |-> below,
       willFreezeSoon      |-> f # 0 /\ until <= WARNING_TIME /\ until > 0,
       freezingForecast    |-> IF f = 0 THEN <<>> ELSE <<list[f]>>,
       freezingTime        |-> IF f = 0 THEN <<>> ELSE <<list[f].dt>>,
       morningWarning      |-> f # 0 /\ ~below /\ list[f].dt < tomorrow,
       willBeBelowFreezing |-> f # 0,
       allClear            |-> ~below ]

\* analyzeForecast, called at time t on a forecast whose list is list0
analyzeForecast(list0, t) ==
  LET list     == SortByDt(list0)
      below    == list # <<>> /\ list[1].temp <= TEMP_THRESHOLD
      f        == FirstFreezeFrom(list, 1)
      until    == list[f].dt - t
      tomorrow == (t \div DayLen + 1) * DayLen
  IN [ currentTemp         |-> IF list = <<>> THEN <<>> ELSE <<list[1].temp>>,
       isBelowFreezing     |-> below,
       willFreezeSoon      |-> f # 0 /\ until <= WARNING_TIME /\ until > 0,
       freezingForecast    |-> IF f = 0 THEN <<>> ELSE <<list[f]>>,
       freezingTime        |-> IF f = 0 THEN <<>> ELSE <<list[f].dt>>,
       morningWarning      |-> f # 0 /\ ~below /\ list[f].dt < tomorrow,
       willBeBelowFreezing |-> f # 0,
       allClear            |-> ~below /\ f = 0 ]

\* the analysis a tick holds while it is not inside processLocationForecast
NoAnalysis == analyzeForecast(<<>>, 0)

(***************************************************************************)
(* The weather cache (weatherCacheOps).  expires_at is stored as an ISO    *)
(* string and compared, as text, with SQLite's datetime('now').            *)
(***************************************************************************)
\* JSON.stringify of a forecast: the text, as the sequence of the numbers it
\* spells (dt and temp of each point of the list, in order)
RECURSIVE JSONstringify(_)
JSONstringify(list) ==
  IF list = <<>> THEN <<>>
  ELSE <<Head(list).dt, Head(list).temp>> \o JSONstringify(Tail(list))

\* JSON.parse of such a text
RECURSIVE JSONparse(_)
JSONparse(text) ==
  IF Len(text) < 2 THEN <<>>
  ELSE <<[dt |-> text[1], temp |-> text[2]]>> \o JSONparse(Tail(Tail(text)))

\* expires_at > datetime('now')
Unexpired(row) == LexLess(datetimeNow, row.expires_at)

\* getWeatherCache with the comparison of its WHERE clause turned round
\* (expires_at < datetime('now'))
getWeatherCacheExpired(c, latitude, longitude) ==
  SelectSeq(c, LAMBDA row : /\ row.latitude = latitude
                            /\ row.longitude = longitude
                            /\ LexLess(row.expires_at, datetimeNow))

\* getWeatherCache.get(latitude, longitude): the row, if any
getWeatherCache(c, latitude, longitude) ==
  SelectSeq(c, LAMBDA row : /\ row.latitude = latitude
                            /\ row.longitude = longitude
                            /\ Unexpired(row))

\* getAllCachedLocations.get(): the first unexpired row, if any (one row, not a list)
getAllCachedLocations(c) ==
  LET valid == SelectSeq(c, Unexpired)
  IN IF valid = <<>> THEN <<>> ELSE <<valid[1]>>

\* upsertWeatherCache as INSERT OR IGNORE: the row of a coordinate already in
\* the table is kept as it is
upsertWeatherCacheIgnore(c, latitude, longitude, data, expiresAt) ==
  IF \E i \in 1..Len(c) : c[i].latitude = latitude /\ c[i].longitude = longitude
  THEN c
  ELSE Append(c, [latitude |-> latitude, longitude |-> longitude,
                  data |-> data, expires_at |-> expiresAt])

\* upsertWeatherCache as a plain INSERT into a table without the UNIQUE
\* constraint
upsertWeatherCacheInsert(c, latitude, longitude, data, expiresAt) ==
  Append(c, [latitude |-> latitude, longitude |-> longitude,
             data |-> data, expires_at |-> expiresAt])

\* upsertWeatherCache.run({latitude, longitude, data, expiresAt})
upsertWeatherCache(c, latitude, longitude, data, expiresAt) ==
  IF \E i \in 1..Len(c) : c[i].latitude = latitude /\ c[i].longitude = longitude
  THEN [i \in 1..Len(c) |->
          IF c[i].latitude = latitude /\ c[i].longitude = longitude
          THEN [c[i] EXCEPT !.data = data, !.expires_at = expiresAt]
          ELSE c[i]]
  ELSE Append(c, [latitude |-> latitude, longitude |-> longitude,
                  data |-> data, expires_at |-> expiresAt])

\* cleanupExpiredCache.run(): DELETE ... WHERE expires_at <= datetime('now')
cleanupExpiredCache(c) ==
  SelectSeq(c, LAMBDA row : ~(\/ row.expires_at = datetimeNow
                              \/ LexLess(row.expires_at, datetimeNow)))

\* the part of getForecast before the provider call, forceRefresh = false:
\* "hit" with the parsed data of the cached row, "throw" (for...of over the one
\* row that getAllCachedLocations.get() returned is a TypeError), or "miss"
ForecastLookup(c, latitude, longitude) ==
  LET exact == getWeatherCache(c, latitude, longitude)
  IN IF exact # <<>>
     THEN [kind |-> "hit", data |-> JSONparse(exact[1].data), row |-> exact]
     ELSE IF getAllCachedLocations(c) # <<>>
     THEN [kind |-> "throw", data |-> <<>>, row |-> <<>>]
     ELSE [kind |-> "miss", data |-> <<>>, row |-> <<>>]

\* what the provider can answer at time t: ForecastLen points, ForecastStep apart
ProviderSeries(t) ==
  { [k \in 1..ForecastLen |-> [dt |-> t + ForecastStep * (k - 1), temp |-> f[k]]] :
      f \in [1..ForecastLen -> Temps] }

(***************************************************************************)
(* Notification records (notificationOps).                                 *)
(***************************************************************************)
\* addNotification.run(notification); the id is the row's position.  run and
\* during are observations: the tick that wrote the row, and the other tick in
\* flight at that moment (0 if none)
addNotification(n, notification, run, other) ==
  Append(n, [location_id       |-> notification.locationId,
             notification_type |-> notification.notificationType,
             scheduled_for     |-> notification.scheduledFor,
             temperature       |-> notification.temperature,
             forecast_time     |-> notification.forecastTime,
             sent |-> FALSE, created_at |-> now,
             run |-> run, during |-> other])

\* an UPDATE without its WHERE clause: every row is marked sent
markNotificationAsSentAll(n, id) == [i \in 1..Len(n) |-> [n[i] EXCEPT !.sent = TRUE]]

\* markNotificationAsSent.run(id)
markNotificationAsSent(n, id) == [n EXCEPT ![id].sent = TRUE]

\* getLatestWarningForLocation.get(id): ORDER BY created_at DESC LIMIT 1 leaves
\* the choice among rows of one created_at open; every row it can return, as
\* "none", "sent" or "unsent"
getLatestWarningForLocation(n, locationId) ==
  LET rows == {i \in 1..Len(n) : /\ n[i].location_id = locationId
                                 /\ n[i].notification_type = "warning"}
      last == {i \in rows : \A j \in rows : n[j].created_at <= n[i].created_at}
  IN IF rows = {} THEN {"none"}
     ELSE {IF n[i].sent THEN "sent" ELSE "unsent" : i \in last}

\* the type of the newest notification row of a location, "none" if it has none
LastKind(n, locationId) ==
  LET rows == {i \in 1..Len(n) : n[i].location_id = locationId}
  IN IF rows = {} THEN "none"
     ELSE n[CHOOSE i \in rows : \A j \in rows : j <= i].notification_type

(***************************************************************************)
(* A polling tick.  Node runs a tick without interruption between two      *)
(* awaits of real input/output: the provider call (axios.get in            *)
(* getForecast) and the delivery (bot.telegram.sendMessage in              *)
(* sendNotification); the database calls are synchronous.  A tick record   *)
(* holds the position of checkAllLocationsWeather and the locals it keeps  *)
(* across those awaits:                                                    *)
(*   pc      "idle", "fetch" (awaiting the provider), "send" (awaiting the *)
(*           delivery); "group", "member", "stage" only inside a step      *)
(*   groups  locationGroups;  gi, mi  the group and the member in progress *)
(*   forecast the list of the forecast in hand                             *)
(*   an, latest  analysis and latestWarning of processLocationForecast     *)
(*   stage   the if-block of processLocationForecast in progress (1..3)    *)
(*   nid     the id sendNotification is delivering                         *)
(* and four observations of the run: apiCalls (provider calls made), cold  *)
(* (no unexpired cache row when it started), skipped (the groups whose     *)
(* getForecast call failed) and calls (one entry per                       *)
(* processLocationForecast call: the location, whether the forecast's list *)
(* was empty, whether analyzeForecast returned an analysis, the analysis'  *)
(* allClear, the type of the location's newest record before the call, the *)
(* types the call recorded).                                               *)
(***************************************************************************)
IdleTick ==
  [pc |-> "idle", run |-> 0, groups |-> <<>>, gi |-> 0, mi |-> 0,
   forecast |-> <<>>, an |-> NoAnalysis, latest |-> "none", stage |-> 0,
   nid |-> 0, apiCalls |-> 0, cold |-> FALSE, skipped |-> {}, calls |-> <<>>]

\* the locals a finished tick no longer holds
Finished(t) ==
  [t EXCEPT !.pc = "idle", !.gi = 0, !.mi = 0, !.forecast = <<>>,
            !.an = NoAnalysis, !.latest = "none", !.stage = 0, !.nid = 0]

\* the call in progress records a notification of type kind
NoteEmit(t, kind) ==
  [t EXCEPT !.calls[Len(t.calls)].emits = Append(@, kind)]

\* one if-block of processLocationForecast (lines 147, 167, 187)
StageCondition(t) ==
  CASE t.stage = 1 -> t.an.willFreezeSoon /\ ~t.an.isBelowFreezing
    [] t.stage = 2 -> t.an.isBelowFreezing
    [] OTHER       -> t.an.allClear /\ t.latest # "none" /\ t.latest # "sent"

StageType(t) ==
  CASE t.stage = 1 -> "warning"
    [] t.stage = 2 -> "now_freezing"
    [] OTHER       -> "all_clear"

\* the notification object the if-block in progress builds for location
StageNotification(t, location) ==
  [locationId       |-> location.id,
   notificationType |-> StageType(t),
   scheduledFor     |-> toISOString(now),
   temperature      |-> IF t.stage = 1
                        THEN (IF t.an.freezingForecast = <<>> THEN <<>>
                              ELSE <<t.an.freezingForecast[1].temp>>)
                        ELSE t.an.currentTemp,
   forecastTime     |-> IF t.stage = 1
                        THEN (IF t.an.freezingTime = <<>> THEN <<>>
                              ELSE toISOString(t.an.freezingTime[1]))
                        ELSE toISOString(now)]

\* better-sqlite3 binds numbers, strings and null, and throws on undefined
Bindable(notification) ==
  /\ notification.temperature # <<>>
  /\ notification.forecastTime # <<>>

\* the steps a tick takes, from w = [t, n] (tick record, notifications table),
\* without awaiting input or output; c is the weather_cache table and other the
\* run of the other tick in flight
TickStep(w, other, c) ==
  LET t == w.t
      n == w.n
  IN CASE t.pc = "group" ->
            \* for (const group of locationGroups): getForecast(repLocation)
            IF t.gi > Len(t.groups) THEN {[w EXCEPT !.t = Finished(t)]}
            ELSE LET repLocation == t.groups[t.gi][1]
                     got == ForecastLookup(c, repLocation.latitude,
                                           repLocation.longitude)
                 IN CASE got.kind = "hit" ->
                           {[w EXCEPT !.t.pc = "member", !.t.mi = 1,
                                      !.t.forecast = got.data]}
                      [] got.kind = "throw" ->
                           {[w EXCEPT !.t.gi = t.gi + 1,
                                      !.t.skipped = @ \cup {t.gi}]}
                      [] OTHER ->
                           {[w EXCEPT !.t.pc = "fetch",
                                      !.t.apiCalls = t.apiCalls + 1]}
       [] t.pc = "member" ->
            \* for (const location of group): processLocationForecast
            IF t.mi > Len(t.groups[t.gi])
            THEN {[w EXCEPT !.t.pc = "group", !.t.gi = t.gi + 1, !.t.mi = 0,
                            !.t.forecast = <<>>]}
            ELSE LET location == t.groups[t.gi][t.mi]
                     analysis == analyzeForecast(t.forecast, now)
                 IN { [w EXCEPT !.t.pc = "stage", !.t.stage = 1,
                                !.t.forecast = SortByDt(t.forecast),
                                !.t.an = analysis, !.t.latest = latestWarning,
                                !.t.calls = Append(t.calls,
                                   [location_id |-> location.id,
                                    empty |-> (t.forecast = <<>>),
                                    analysed |-> TRUE,
                                    allClear |-> analysis.allClear,
                                    prior |-> LastKind(n, location.id),
                                    emits |-> <<>>])] :
                      latestWarning \in getLatestWarningForLocation(n, location.id) }
       [] OTHER ->
            \* t.pc = "stage": the three if-blocks, then the next member
            IF t.stage > 3
            THEN {[w EXCEPT !.t.pc = "member", !.t.mi = t.mi + 1, !.t.stage = 0,
                            !.t.an = NoAnalysis, !.t.latest = "none"]}
            ELSE IF /\ StageCondition(t)
                    /\ ~Bindable(StageNotification(t, t.groups[t.gi][t.mi]))
            \* addNotification.run throws: the catch of line 205, next member
            THEN {[w EXCEPT !.t.pc = "member", !.t.mi = t.mi + 1, !.t.stage = 0,
                            !.t.an = NoAnalysis, !.t.latest = "none"]}
            ELSE IF StageCondition(t) /\ Len(n) >= MaxNotifications THEN {}
            ELSE IF StageCondition(t)
            THEN {[t |-> [NoteEmit(t, StageType(t)) EXCEPT
                            !.pc = "send", !.nid = Len(n) + 1],
                   n |-> addNotification(n,
                            StageNotification(t, t.groups[t.gi][t.mi]),
                            t.run, other)]}
            ELSE {[w EXCEPT !.t.stage = t.stage + 1]}

\* every [t, n] a tick can reach from w when it next awaits or has finished
RECURSIVE RunTick(_, _, _)
RunTick(w, other, c) ==
  IF w.t.pc \in {"idle", "fetch", "send"} THEN {w}
  ELSE UNION {RunTick(w2, other, c) : w2 \in TickStep(w, other, c)}

\* the run of the other polling tick if it is in flight, else 0
OtherRun(p) ==
  LET q == CHOOSE q \in Procs : q # p
  IN IF tick[q].pc = "idle" THEN 0 ELSE tick[q].run

\* the tick p goes on from t, on the notifications table n and the weather_cache
\* table c, until it awaits again
Continue(p, t, n, c) ==
  \E w \in RunTick([t |-> t, n |-> n], OtherRun(p), c) :
     /\ tick' = [tick EXCEPT ![p] = w.t]
     /\ notifications' = w.n

(***************************************************************************)
(* Actions.                                                                *)
(***************************************************************************)
\* checkAllLocationsWeather is called: by scheduleWeatherChecks at once
\* (p = 1, once) or by the scheduled job (p = 2, after that)
StartTick(p) ==
  /\ tick[p].pc = "idle"
  /\ runs < MaxRuns
  /\ IF p = 1 THEN runs = 0 ELSE runs > 0
  /\ runs' = runs + 1
  /\ Continue(p, [IdleTick EXCEPT
                    !.pc = "group", !.run = runs + 1, !.gi = 1,
                    !.groups = IF Len(locations) = 0 THEN <<>>
                               ELSE LocationGroups(locations, GEOCACHE_DISTANCE),
                    !.cold = (SelectSeq(cache, Unexpired) = <<>>)],
              notifications, cache)
  /\ UNCHANGED <<locations, GEOCACHE_DISTANCE, now, cache>>
  /\ UNCHANGED clientVars

\* the provider answers the call of tick p with a forecast: getForecast
\* caches it and returns it, and the group's members are processed
ProviderOk(p) ==
  /\ tick[p].pc = "fetch"
  /\ \E data \in ProviderSeries(now) :
       LET repLocation == tick[p].groups[tick[p].gi][1]
           cached == upsertWeatherCache(cache, repLocation.latitude,
                                        repLocation.longitude,
                                        JSONstringify(data),
                                        toISOString(now + GEOCACHE_EXPIRY))
       IN /\ cache' = cached
          /\ Continue(p, [tick[p] EXCEPT !.pc = "member", !.mi = 1,
                                         !.forecast = data],
                      notifications, cached)
  /\ UNCHANGED <<locations, GEOCACHE_DISTANCE, now, runs>>
  /\ UNCHANGED clientVars

\* the provider call of tick p fails: getForecast throws, the group is skipped
ProviderFail(p) ==
  /\ tick[p].pc = "fetch"
  /\ Continue(p, [tick[p] EXCEPT !.pc = "group", !.gi = @ + 1,
                                 !.skipped = @ \cup {tick[p].gi}],
              notifications, cache)
  /\ UNCHANGED <<locations, GEOCACHE_DISTANCE, now, cache, runs>>
  /\ UNCHANGED clientVars

\* sendMessage of tick p returns: the record is marked sent
DeliverOk(p) ==
  /\ tick[p].pc = "send"
  /\ Continue(p, [tick[p] EXCEPT !.pc = "stage", !.stage = @ + 1, !.nid = 0],
              markNotificationAsSent(notifications, tick[p].nid), cache)
  /\ UNCHANGED <<locations, GEOCACHE_DISTANCE, now, cache, runs>>
  /\ UNCHANGED clientVars

\* a sendMessage failure that leaves the loop over the group
DeliverFailAbortsGroup(p) ==
  /\ tick[p].pc = "send"
  /\ Continue(p, [tick[p] EXCEPT !.pc = "group", !.gi = @ + 1, !.mi = 0,
                                 !.forecast = <<>>, !.an = NoAnalysis,
                                 !.latest = "none", !.stage = 0, !.nid = 0],
              notifications, cache)
  /\ UNCHANGED <<locations, GEOCACHE_DISTANCE, now, cache, runs>>
  /\ UNCHANGED clientVars

\* sendMessage of tick p fails: sendNotification logs it, the record stays unsent
DeliverFail(p) ==
  /\ tick[p].pc = "send"
  /\ Continue(p, [tick[p] EXCEPT !.pc = "stage", !.stage = @ + 1, !.nid = 0],
              notifications, cache)
  /\ UNCHANGED <<locations, GEOCACHE_DISTANCE, now, cache, runs>>
  /\ UNCHANGED clientVars

\* time passes
AdvanceClock ==
  /\ now + ClockStep <= StartHour + MaxAdvances * ClockStep
  /\ now' = now + ClockStep
  /\ UNCHANGED <<locations, GEOCACHE_DISTANCE, cache, notifications, tick, runs>>
  /\ UNCHANGED clientVars

\* the callers of getForecast outside a tick (the bot's commands, the morning
\* summaries)
Callers == {1, 2}

\* a caller that has not called getForecast: pc is "idle", "await" (awaiting the
\* provider) or "done"; outcome is "none", "returned" (with data) or "failed"
\* (with error).  Two observations: apiCalls counts the provider calls of the
\* call, rejected holds the message of the error the provider call failed with
IdleCall ==
  [pc |-> "idle", latitude |-> 0, longitude |-> 0, apiCalls |-> 0,
   outcome |-> "none", data |-> <<>>, error |-> <<>>, rejected |-> <<>>]

\* main before it runs.  pc is "off", "send" (processAllPendingNotifications
\* awaits sendMessage) or "done" (it returned, the schedulers are started);
\* life counts the process' starts, pending are the ids getPendingNotifications
\* returned, i the position of the loop, nid the row being sent.  Two
\* observations: due (the ids of the rows that were unsent and scheduled for
\* no later than the wall clock when the process started) and attempted (the
\* ids sendMessage was called for)
IdleStartup ==
  [pc |-> "off", life |-> 1, pending |-> <<>>, i |-> 0, nid |-> 0,
   due |-> {}, attempted |-> {}]

\* sendMorningSummaries before it is called.  pc is "idle", "fetch" (awaiting
\* the provider) or "send" (awaiting sendMessage); users are the keys of
\* locationsByUser, ui and li the positions of the two loops,
\* freezingLocations the ids of the list of that name, nid the row being sent.
\* One observation, summaries: per user done, the ids of its
\* freezingLocations and the id of the row recorded for them (0 if none)
IdleMorning ==
  [pc |-> "idle", ran |-> FALSE, users |-> <<>>, ui |-> 0, li |-> 0,
   freezingLocations |-> <<>>, nid |-> 0, summaries |-> <<>>]

\* nobody outside the ticks has called getForecast, cleanupWeatherCache or
\* analyzeForecast, the morning summaries have not run, nothing was removed
NoClients ==
  /\ call = [c \in Callers |-> IdleCall]
  /\ puts = {}
  /\ sweeps = 0
  /\ forecastData = <<>>
  /\ analyses = <<>>
  /\ morning = IdleMorning
  /\ removed = {}
  /\ startup = IdleStartup

\* the locations tables of up to maxLen rows at the latitudes lats: ids are the
\* rowids 1, 2, ...
LocationTables(maxLen, lats) ==
  UNION { { [i \in 1..k |-> [id |-> i, latitude |-> lat[i], longitude |-> lon[i]]] :
              lat \in [1..k -> lats], lon \in [1..k -> Lons] } : k \in 0..maxLen }

Init ==
  /\ locations \in LocationTables(MaxTickLocations, TickLats)
  /\ GEOCACHE_DISTANCE \in Radii
  /\ now = StartHour
  /\ cache = <<>>
  /\ notifications = <<>>
  /\ tick = [p \in Procs |-> IdleTick]
  /\ runs = 0
  /\ NoClients

Next ==
  \/ \E p \in Procs : StartTick(p)
  \/ \E p \in Procs : ProviderOk(p)
  \/ \E p \in Procs : ProviderFail(p)
  \/ \E p \in Procs : DeliverOk(p)
  \/ \E p \in Procs : DeliverFail(p)
  \/ AdvanceClock

Spec == Init /\ [][Next]_vars

(***************************************************************************)
(* The ticks one after the other: a tick takes seconds, so the scheduled   *)
(* job (every WEATHER_UPDATE_FREQUENCY minutes) fires, and the hours pass, *)
(* only while no tick is in flight.                                        *)
(***************************************************************************)
NoTickInFlight == \A q \in Procs : tick[q].pc = "idle"

StartTickAlone(p) ==
  /\ NoTickInFlight
  /\ StartTick(p)

AdvanceClockBetweenTicks ==
  /\ NoTickInFlight
  /\ AdvanceClock

NextSeq ==
  \/ \E p \in Procs : StartTickAlone(p)
  \/ \E p \in Procs : ProviderOk(p)
  \/ \E p \in Procs : ProviderFail(p)
  \/ \E p \in Procs : DeliverOk(p)
  \/ \E p \in Procs : DeliverFail(p)
  \/ AdvanceClockBetweenTicks

SpecSeq == Init /\ [][NextSeq]_vars

(***************************************************************************)
(* The ticks one after the other, under the progress the runtime gives: a  *)
(* tick runs on by itself up to its next await (that is part of every      *)
(* action), and the sendMessage request it awaits is taken to settle.      *)
(* Nothing makes the provider request settle: axios.get is called without  *)
(* a timeout option (weather.js line 54), and axios' default is none.      *)
(***************************************************************************)
SpecSeqFair ==
  /\ Init
  /\ [][NextSeq]_vars
  /\ \A p \in Procs : WF_vars(DeliverOk(p) \/ DeliverFail(p))

(***************************************************************************)
(* The ticks one after the other, with a provider that can also answer     *)
(* with a forecast whose list is empty.                                    *)
(***************************************************************************)
\* the provider answers the call of tick p with a forecast without points
ProviderOkEmpty(p) ==
  /\ tick[p].pc = "fetch"
  /\ LET repLocation == tick[p].groups[tick[p].gi][1]
         cached == upsertWeatherCache(cache, repLocation.latitude,
                                      repLocation.longitude,
                                      JSONstringify(<<>>),
                                      toISOString(now + GEOCACHE_EXPIRY))
     IN /\ cache' = cached
        /\ Continue(p, [tick[p] EXCEPT !.pc = "member", !.mi = 1,
                                       !.forecast = <<>>],
                    notifications, cached)
  /\ UNCHANGED <<locations, GEOCACHE_DISTANCE, now, runs>>
  /\ UNCHANGED clientVars

NextSeqEmpty ==
  \/ NextSeq
  \/ \E p \in Procs : ProviderOkEmpty(p)

SpecSeqEmpty == Init /\ [][NextSeqEmpty]_vars

(***************************************************************************)
(* The grouping alone, on every locations table of up to MaxLocations rows.*)
(***************************************************************************)
InitGroup ==
  /\ locations \in LocationTables(MaxLocations, Lats)
  /\ GEOCACHE_DISTANCE \in Radii
  /\ now = StartHour
  /\ cache = <<>>
  /\ notifications = <<>>
  /\ tick = [p \in Procs |-> IdleTick]
  /\ runs = 0
  /\ NoClients

\* lines 86-111 of checkAllLocationsWeather, run by tick p
GroupLocations(p) ==
  /\ tick[p].pc = "idle"
  /\ tick[p].run = 0
  /\ tick' = [tick EXCEPT ![p].groups = LocationGroups(locations, GEOCACHE_DISTANCE),
                          ![p].run = 1]
  /\ UNCHANGED <<locations, GEOCACHE_DISTANCE, now, cache, notifications, runs>>
  /\ UNCHANGED clientVars

NextGroup == \E p \in Procs : GroupLocations(p)

SpecGroup == InitGroup /\ [][NextGroup]_vars

(***************************************************************************)
(* getForecast called outside the ticks (the bot's commands and the        *)
(* morning summaries call it per location), the cache sweep                *)
(* (cleanupWeatherCache, at startup and every three hours) and the clock,  *)
(* hour by hour.  A call runs without interruption up to the provider call *)
(* it awaits.                                                              *)
(***************************************************************************)
\* getForecast(latitude, longitude) is called by caller c (no call site passes
\* forceRefresh): lines 21-54, up to the return of cached data, the TypeError or
\* the provider call
CallGetForecast(c, latitude, longitude) ==
  /\ call[c].pc = "idle"
  /\ LET got  == ForecastLookup(cache, latitude, longitude)
         this == [IdleCall EXCEPT !.latitude = latitude, !.longitude = longitude]
     IN call' = [call EXCEPT ![c] =
          CASE got.kind = "hit" ->
                 [this EXCEPT !.pc = "done", !.outcome = "returned",
                              !.data = got.data]
            [] got.kind = "throw" ->
                 [this EXCEPT !.pc = "done", !.outcome = "failed",
                              !.error = <<"TypeError">>]
            [] OTHER ->
                 [this EXCEPT !.pc = "await", !.apiCalls = 1]]
  /\ UNCHANGED <<locations, GEOCACHE_DISTANCE, now, cache, notifications, tick, runs,
                 puts, sweeps, forecastData, analyses>>
  /\ UNCHANGED <<morning, removed, startup>>

\* the provider answers the call of caller c: lines 64-73, the answer is
\* cached under the requested coordinate and returned
ProviderAnswers(c) ==
  /\ call[c].pc = "await"
  /\ \E data \in ProviderSeries(now) :
       /\ cache' = upsertWeatherCache(cache, call[c].latitude, call[c].longitude,
                                      JSONstringify(data),
                                      toISOString(now + GEOCACHE_EXPIRY))
       /\ call' = [call EXCEPT ![c].pc = "done", ![c].outcome = "returned",
                               ![c].data = data]
       /\ puts' = {p \in puts : ~(/\ p.latitude = call[c].latitude
                                   /\ p.longitude = call[c].longitude)}
                    \cup {[latitude |-> call[c].latitude,
                           longitude |-> call[c].longitude,
                           series |-> data, at |-> now]}
  /\ UNCHANGED <<locations, GEOCACHE_DISTANCE, now, notifications, tick, runs,
                 sweeps, forecastData, analyses>>
  /\ UNCHANGED <<morning, removed, startup>>

\* ProviderRejects with a catch block that falls back to the row of the
\* coordinate, expired or not, when there is one
ProviderRejectsServesStale(c) ==
  /\ call[c].pc = "await"
  /\ \E m \in ProviderErrors :
       LET rows == SelectSeq(cache, LAMBDA row :
                      /\ row.latitude = call[c].latitude
                      /\ row.longitude = call[c].longitude)
       IN call' = [call EXCEPT ![c] =
            IF rows # <<>>
            THEN [@ EXCEPT !.pc = "done", !.outcome = "returned",
                           !.data = JSONparse(rows[1].data), !.rejected = <<m>>]
            ELSE [@ EXCEPT !.pc = "done", !.outcome = "failed",
                           !.error = <<"Failed to fetch weather forecast: ", m>>,
                           !.rejected = <<m>>]]
  /\ UNCHANGED <<locations, GEOCACHE_DISTANCE, now, cache, notifications, tick, runs,
                 puts, sweeps, forecastData, analyses>>
  /\ UNCHANGED <<morning, removed, startup>>

\* the provider call of caller c fails with an error of message m: lines 74-77,
\* getForecast throws a new Error whose message ends with m
ProviderRejects(c) ==
  /\ call[c].pc = "await"
  /\ \E m \in ProviderErrors :
       call' = [call EXCEPT ![c].pc = "done", ![c].outcome = "failed",
                            ![c].error = <<"Failed to fetch weather forecast: ", m>>,
                            ![c].rejected = <<m>>]
  /\ UNCHANGED <<locations, GEOCACHE_DISTANCE, now, cache, notifications, tick, runs,
                 puts, sweeps, forecastData, analyses>>
  /\ UNCHANGED <<morning, removed, startup>>

\* caller c goes on with what getForecast returned or threw
Resume(c) ==
  /\ call[c].pc = "done"
  /\ call' = [call EXCEPT ![c] = IdleCall]
  /\ UNCHANGED <<locations, GEOCACHE_DISTANCE, now, cache, notifications, tick, runs,
                 puts, sweeps, forecastData, analyses>>
  /\ UNCHANGED <<morning, removed, startup>>

\* cleanupWeatherCache()
cleanupWeatherCache ==
  /\ sweeps < MaxSweeps
  /\ sweeps' = sweeps + 1
  /\ cache' = cleanupExpiredCache(cache)
  /\ UNCHANGED <<locations, GEOCACHE_DISTANCE, now, notifications, tick, runs,
                 call, puts, forecastData, analyses>>
  /\ UNCHANGED <<morning, removed, startup>>

\* an hour passes
AdvanceHour ==
  /\ now < FirstHour + MaxHours
  /\ now' = now + 1
  /\ UNCHANGED <<locations, GEOCACHE_DISTANCE, cache, notifications, tick, runs,
                 call, puts, sweeps, forecastData, analyses>>
  /\ UNCHANGED <<morning, removed, startup>>

InitFetch ==
  /\ locations = <<>>
  /\ GEOCACHE_DISTANCE \in Radii
  /\ now = FirstHour
  /\ cache = <<>>
  /\ notifications = <<>>
  /\ tick = [p \in Procs |-> IdleTick]
  /\ runs = 0
  /\ NoClients

NextFetch ==
  \/ \E c \in Callers : \E latitude \in TickLats : \E longitude \in Lons :
        CallGetForecast(c, latitude, longitude)
  \/ \E c \in Callers : ProviderAnswers(c)
  \/ \E c \in Callers : ProviderRejects(c)
  \/ \E c \in Callers : Resume(c)
  \/ cleanupWeatherCache
  \/ AdvanceHour

SpecFetch == InitFetch /\ [][NextFetch]_vars

(***************************************************************************)
(* analyzeForecast called on one forecast object, again and again while    *)
(* the hours pass.  The object's list is any list of up to ForecastLen     *)
(* points at the provider's three-hourly slots around the clock, in any    *)
(* order.                                                                  *)
(***************************************************************************)
\* the provider's slots from one step before FirstHour to one step after the
\* last hour of the clock
SlotTimes ==
  {t \in (FirstHour - ForecastStep)..(FirstHour + MaxHours + ForecastStep) :
      t % ForecastStep = 0}

\* the lists a forecast object can hold
ForecastLists ==
  UNION { [1..k -> [dt : SlotTimes, temp : AnalyzeTemps]] : k \in 0..ForecastLen }

\* list holds the points of other, each as often, in some order
IsPermutation(list, other) ==
  /\ Len(list) = Len(other)
  /\ \A i \in 1..Len(list) :
        Cardinality({k \in 1..Len(list) : list[k] = list[i]})
          = Cardinality({k \in 1..Len(other) : other[k] = list[i]})

\* analyzeForecast(forecastData) is called: the list of the object is sorted in
\* place (line 91) and the analysis is returned
CallAnalyzeForecast ==
  /\ Len(analyses) < MaxAnalyses
  /\ forecastData' = SortByDt(forecastData)
  /\ analyses' = Append(analyses, [before |-> forecastData,
                                   after  |-> SortByDt(forecastData),
                                   result |-> analyzeForecast(forecastData, now)])
  /\ UNCHANGED <<locations, GEOCACHE_DISTANCE, now, cache, notifications, tick, runs,
                 call, puts, sweeps>>
  /\ UNCHANGED <<morning, removed, startup>>

\* analyzeForecast is called on a shuffled copy of the caller's forecast object
CallAnalyzeForecastOnCopy ==
  /\ Len(analyses) < MaxAnalyses
  /\ \E copy \in ForecastLists :
       /\ IsPermutation(copy, forecastData)
       /\ analyses' = Append(analyses, [before |-> copy,
                                        after  |-> SortByDt(copy),
                                        result |-> analyzeForecast(copy, now)])
  /\ UNCHANGED <<locations, GEOCACHE_DISTANCE, now, cache, notifications, tick, runs,
                 call, puts, sweeps, forecastData>>
  /\ UNCHANGED <<morning, removed, startup>>

InitAnalyze ==
  /\ locations = <<>>
  /\ GEOCACHE_DISTANCE \in Radii
  /\ now = FirstHour
  /\ cache = <<>>
  /\ notifications = <<>>
  /\ tick = [p \in Procs |-> IdleTick]
  /\ runs = 0
  /\ call = [c \in Callers |-> IdleCall]
  /\ puts = {}
  /\ sweeps = 0
  /\ forecastData \in ForecastLists
  /\ analyses = <<>>
  /\ morning = IdleMorning
  /\ removed = {}
  /\ startup = IdleStartup

NextAnalyze ==
  \/ CallAnalyzeForecast
  \/ CallAnalyzeForecastOnCopy
  \/ AdvanceHour

SpecAnalyze == InitAnalyze /\ [][NextAnalyze]_vars

(***************************************************************************)
(* The daily trigger: sendMorningSummaries, once, on a store with          *)
(* locations of up to two users and possibly a warning recorded earlier.   *)
(***************************************************************************)
Users == {1, 2}

\* SQL NULL (temperature: null, forecastTime: null)
Null == <<"null">>

\* the locations tables of up to maxLen rows with their owners
UserLocationTables(maxLen, lats) ==
  UNION { { [i \in 1..Len(table) |->
               [id |-> i, user_id |-> user[i], latitude |-> table[i].latitude,
                longitude |-> table[i].longitude]] :
            user \in [1..Len(table) -> Users] } :
          table \in LocationTables(maxLen, lats) }

\* the rows of user userId, as the loop of lines 226-231 collects them
LocationsOfUser(userId) ==
  SelectSeq(locations, LAMBDA location : location.user_id = userId)

\* the keys of locationsByUser in the order of for...in: integer keys ascending
RECURSIVE AscendingSeq(_)
AscendingSeq(S) ==
  IF S = {} THEN <<>>
  ELSE LET least == CHOOSE x \in S : \A y \in S : x <= y
       IN <<least>> \o AscendingSeq(S \ {least})

UserKeys == AscendingSeq({locations[i].user_id : i \in 1..Len(locations)})

\* lines 241-248 once the forecast is there: the location joins
\* freezingLocations if its analysis has morningWarning
CheckedLocation(m, location, forecast) ==
  [m EXCEPT !.pc = "location", !.li = @ + 1,
            !.freezingLocations =
               IF analyzeForecast(forecast, now).morningWarning
               THEN Append(@, location.id) ELSE @]

\* the steps sendMorningSummaries takes from w = [m, n] without awaiting
MorningStep(w, c) ==
  LET m == w.m
      n == w.n
  IN CASE m.pc = "user" ->
            \* for (const userId in locationsByUser)
            IF m.ui > Len(m.users)
            THEN {[w EXCEPT !.m.pc = "idle", !.m.ran = TRUE, !.m.ui = 0]}
            ELSE {[w EXCEPT !.m.pc = "location", !.m.li = 1,
                            !.m.freezingLocations = <<>>]}
       [] m.pc = "location" ->
            \* for (const location of userLocations): getForecast in a try
            LET userLocations == LocationsOfUser(m.users[m.ui])
            IN IF m.li > Len(userLocations)
               THEN {[w EXCEPT !.m.pc = "summary", !.m.li = 0]}
               ELSE LET location == userLocations[m.li]
                        got == ForecastLookup(c, location.latitude,
                                              location.longitude)
                    IN CASE got.kind = "hit" ->
                              {[w EXCEPT !.m = CheckedLocation(m, location, got.data)]}
                         [] got.kind = "throw" ->
                              {[w EXCEPT !.m.li = m.li + 1]}
                         [] OTHER ->
                              {[w EXCEPT !.m.pc = "fetch"]}
       [] OTHER ->
            \* m.pc = "summary": lines 256-287
            IF m.freezingLocations = <<>>
            THEN {[w EXCEPT !.m.pc = "user", !.m.ui = m.ui + 1,
                            !.m.summaries = Append(@,
                               [user_id |-> m.users[m.ui],
                                freezingLocations |-> <<>>, row |-> 0])]}
            ELSE {[m |-> [m EXCEPT !.pc = "send", !.nid = Len(n) + 1,
                                   !.summaries = Append(@,
                                      [user_id |-> m.users[m.ui],
                                       freezingLocations |-> m.freezingLocations,
                                       row |-> Len(n) + 1])],
                   n |-> addNotification(n,
                            [locationId |-> m.freezingLocations[1],
                             notificationType |-> "morning_summary",
                             scheduledFor |-> toISOString(now),
                             temperature |-> Null, forecastTime |-> Null],
                            0, 0)]}

RECURSIVE RunMorning(_, _)
RunMorning(w, c) ==
  IF w.m.pc \in {"idle", "fetch", "send"} THEN {w}
  ELSE UNION {RunMorning(w2, c) : w2 \in MorningStep(w, c)}

\* sendMorningSummaries goes on from m until it awaits again or returns
ContinueMorning(m, n, c) ==
  \E w \in RunMorning([m |-> m, n |-> n], c) :
     /\ morning' = w.m
     /\ notifications' = w.n

\* the cron job of scheduleMorningSummaries fires
StartMorning ==
  /\ morning.pc = "idle"
  /\ ~morning.ran
  /\ Len(locations) > 0
  /\ ContinueMorning([IdleMorning EXCEPT !.pc = "user", !.users = UserKeys,
                                         !.ui = 1],
                     notifications, cache)
  /\ UNCHANGED <<locations, GEOCACHE_DISTANCE, now, cache, tick, runs, call, puts,
                 sweeps, forecastData, analyses, removed, startup>>

\* the location whose forecast sendMorningSummaries awaits
MorningLocation == LocationsOfUser(morning.users[morning.ui])[morning.li]

\* the provider answers: getForecast caches the forecast and returns it
MorningProviderOk ==
  /\ morning.pc = "fetch"
  /\ \E data \in ProviderSeries(now) :
       LET cached == upsertWeatherCache(cache, MorningLocation.latitude,
                                        MorningLocation.longitude,
                                        JSONstringify(data),
                                        toISOString(now + GEOCACHE_EXPIRY))
       IN /\ cache' = cached
          /\ ContinueMorning(CheckedLocation(morning, MorningLocation, data),
                             notifications, cached)
  /\ UNCHANGED <<locations, GEOCACHE_DISTANCE, now, tick, runs, call, puts,
                 sweeps, forecastData, analyses, removed, startup>>

\* the provider call fails: the catch of line 250, next location
MorningProviderFail ==
  /\ morning.pc = "fetch"
  /\ ContinueMorning([morning EXCEPT !.pc = "location", !.li = @ + 1],
                     notifications, cache)
  /\ UNCHANGED <<locations, GEOCACHE_DISTANCE, now, cache, tick, runs, call, puts,
                 sweeps, forecastData, analyses, removed, startup>>

\* sendMessage returns: the summary is marked sent, next user
MorningDeliverOk ==
  /\ morning.pc = "send"
  /\ ContinueMorning([morning EXCEPT !.pc = "user", !.ui = @ + 1, !.nid = 0],
                     markNotificationAsSent(notifications, morning.nid), cache)
  /\ UNCHANGED <<locations, GEOCACHE_DISTANCE, now, cache, tick, runs, call, puts,
                 sweeps, forecastData, analyses, removed, startup>>

\* sendMessage fails: sendNotification logs it, next user
MorningDeliverFail ==
  /\ morning.pc = "send"
  /\ ContinueMorning([morning EXCEPT !.pc = "user", !.ui = @ + 1, !.nid = 0],
                     notifications, cache)
  /\ UNCHANGED <<locations, GEOCACHE_DISTANCE, now, cache, tick, runs, call, puts,
                 sweeps, forecastData, analyses, removed, startup>>

\* the notifications a store can hold before the daily trigger: none, or a
\* warning of an earlier polling tick for the first location, sent
EarlierNotifications(table) ==
  {<<>>} \cup
  (IF table = <<>> THEN {}
   ELSE {<<[location_id |-> table[1].id, notification_type |-> "warning",
            scheduled_for |-> toISOString(StartHour),
            temperature |-> <<0 - 1>>,
            forecast_time |-> toISOString(StartHour + ForecastStep),
            sent |-> TRUE, created_at |-> StartHour, run |-> 0, during |-> 0]>>})

InitMorning ==
  /\ locations \in UserLocationTables(MaxTickLocations, TickLats)
  /\ GEOCACHE_DISTANCE \in Radii
  /\ now = StartHour
  /\ cache = <<>>
  /\ notifications \in EarlierNotifications(locations)
  /\ tick = [p \in Procs |-> IdleTick]
  /\ runs = 0
  /\ NoClients

NextMorning ==
  \/ StartMorning
  \/ MorningProviderOk
  \/ MorningProviderFail
  \/ MorningDeliverOk
  \/ MorningDeliverFail

SpecMorning == InitMorning /\ [][NextMorning]_vars

(***************************************************************************)
(* The bot's /remove command between polling ticks, on a store with        *)
(* locations of up to two users.  The command's handler awaits nothing     *)
(* before it deletes.                                                      *)
(***************************************************************************)
\* deleteLocation.run(id, userId) throws: foreign_keys is ON and a
\* notifications row references the location (no ON DELETE clause)
ForeignKeyFails(id) ==
  \E i \in 1..Len(notifications) : notifications[i].location_id = id

\* DELETE FROM locations WHERE id = ? AND user_id = ?
deleteLocation(table, id, userId) ==
  SelectSeq(table, LAMBDA location : ~(location.id = id /\ location.user_id = userId))

\* user userId sends /remove index, index naming one of their locations
RemoveCommand(userId, index) ==
  /\ NoTickInFlight
  /\ index \in 1..Len(LocationsOfUser(userId))
  /\ LET locationToRemove == LocationsOfUser(userId)[index]
     IN /\ removed' = removed \cup {locationToRemove.id}
        /\ locations' = IF ForeignKeyFails(locationToRemove.id)
                        THEN locations
                        ELSE deleteLocation(locations, locationToRemove.id, userId)
  /\ UNCHANGED <<GEOCACHE_DISTANCE, now, cache, notifications, tick, runs, call,
                 puts, sweeps, forecastData, analyses, morning, startup>>

InitRemove ==
  /\ locations \in UserLocationTables(MaxTickLocations, TickLats)
  /\ GEOCACHE_DISTANCE \in Radii
  /\ now = StartHour
  /\ cache = <<>>
  /\ notifications = <<>>
  /\ tick = [p \in Procs |-> IdleTick]
  /\ runs = 0
  /\ NoClients

NextRemove ==
  \/ NextSeq
  \/ \E userId \in Users : \E index \in 1..MaxTickLocations :
        RemoveCommand(userId, index)

SpecRemove == InitRemove /\ [][NextRemove]_vars

(***************************************************************************)
(* The process' lives: main runs processAllPendingNotifications, then      *)
(* starts the schedulers; the polling ticks follow one after the other;    *)
(* the process is stopped and started again.                               *)
(***************************************************************************)
\* s <= t as SQLite compares two texts
LexLessEq(s, t) == s = t \/ LexLess(s, t)

\* the time an ISO string stands for, hours
DateParse(text) == text[1] * DayLen + text[3]

\* getPendingNotifications.all(): the ids in rowid order (every row of the
\* model has its location and its user)
getPendingNotifications ==
  SelectSeq([i \in 1..Len(notifications) |-> i],
            LAMBDA i : /\ ~notifications[i].sent
                       /\ LexLessEq(notifications[i].scheduled_for, datetimeNow))

\* the rows that are unsent and whose scheduled_for time is not in the future
DueNotifications ==
  {i \in 1..Len(notifications) :
     /\ ~notifications[i].sent
     /\ DateParse(notifications[i].scheduled_for) <= now}

\* the loop of processAllPendingNotifications from st on, up to the next
\* sendMessage: sendNotification returns at once for a row that is sent
\* (line 307), n is the notifications table
RECURSIVE RunStartup(_, _)
RunStartup(st, n) ==
  IF st.i > Len(st.pending) THEN [st EXCEPT !.pc = "done", !.i = 0, !.nid = 0]
  ELSE IF n[st.pending[st.i]].sent
  THEN RunStartup([st EXCEPT !.i = @ + 1], n)
  ELSE [st EXCEPT !.pc = "send", !.nid = st.pending[st.i],
                  !.attempted = @ \cup {st.pending[st.i]}]

\* main is run: bot.launch, then processAllPendingNotifications
StartProcess ==
  /\ startup.pc = "off"
  /\ startup' = RunStartup([startup EXCEPT !.pending = getPendingNotifications,
                                           !.i = 1, !.due = DueNotifications,
                                           !.attempted = {}],
                         notifications)
  /\ UNCHANGED <<locations, GEOCACHE_DISTANCE, now, cache, notifications, tick,
                 runs, call, puts, sweeps, forecastData, analyses, morning,
                 removed>>

\* sendMessage of processAllPendingNotifications returns: the row is marked sent
StartupDeliverOk ==
  /\ startup.pc = "send"
  /\ notifications' = markNotificationAsSent(notifications, startup.nid)
  /\ startup' = RunStartup([startup EXCEPT !.i = @ + 1, !.nid = 0], notifications')
  /\ UNCHANGED <<locations, GEOCACHE_DISTANCE, now, cache, tick, runs, call, puts,
                 sweeps, forecastData, analyses, morning, removed>>

\* sendMessage fails: sendNotification logs it, the row stays unsent
StartupDeliverFail ==
  /\ startup.pc = "send"
  /\ startup' = RunStartup([startup EXCEPT !.i = @ + 1, !.nid = 0], notifications)
  /\ UNCHANGED <<locations, GEOCACHE_DISTANCE, now, cache, notifications, tick,
                 runs, call, puts, sweeps, forecastData, analyses, morning,
                 removed>>

\* initializeSchedulers runs after processAllPendingNotifications returned
StartTickAfterStartup(p) ==
  /\ startup.pc = "done"
  /\ StartTickAlone(p)

\* the process is stopped between two ticks and started again
StopProcess ==
  /\ startup.pc = "done"
  /\ NoTickInFlight
  /\ startup.life <= MaxRestarts
  /\ startup' = [IdleStartup EXCEPT !.life = startup.life + 1]
  /\ UNCHANGED <<locations, GEOCACHE_DISTANCE, now, cache, notifications, tick,
                 runs, call, puts, sweeps, forecastData, analyses, morning,
                 removed>>

NextStartup ==
  \/ StartProcess
  \/ StartupDeliverOk
  \/ StartupDeliverFail
  \/ StopProcess
  \/ \E p \in Procs : StartTickAfterStartup(p)
  \/ \E p \in Procs : ProviderOk(p)
  \/ \E p \in Procs : ProviderFail(p)
  \/ \E p \in Procs : DeliverOk(p)
  \/ \E p \in Procs : DeliverFail(p)
  \/ AdvanceClockBetweenTicks

SpecStartup == Init /\ [][NextStartup]_vars

(***************************************************************************)
(* Claims.                                                                 *)
(***************************************************************************)
\* rows i < j of the notifications table are of one location and one type
SameLocationAndType(i, j, type) ==
  /\ notifications[i].location_id = notifications[j].location_id
  /\ notifications[i].notification_type = type
  /\ notifications[j].notification_type = type

\* an all_clear of location_id was recorded strictly between rows i and j
AllClearBetween(i, j) ==
  \E k \in (i + 1)..(j - 1) :
     /\ notifications[k].location_id = notifications[i].location_id
     /\ notifications[k].notification_type = "all_clear"

\* rows i < j were written by two consecutive ticks that did not overlap: each
\* row was written while no other tick was in flight
ConsecutiveTicks(i, j) ==
  /\ notifications[j].run = notifications[i].run + 1
  /\ notifications[i].during = 0
  /\ notifications[j].during = 0

\* C1: two consecutive ticks whose analyses both have willFreezeSoon and not
\* isBelowFreezing, with no all_clear between them, record one warning for the
\* location, not two.
C1_OneWarningOverConsecutiveTicks ==
  \A i, j \in 1..Len(notifications) :
     (i < j /\ SameLocationAndType(i, j, "warning") /\ ConsecutiveTicks(i, j))
       => AllClearBetween(i, j)

\* C2: over consecutive ticks that all report isBelowFreezing, with no
\* all_clear between them, one now_freezing is recorded for the location, not
\* one per tick.
C2_OneNowFreezingOverConsecutiveTicks ==
  \A i, j \in 1..Len(notifications) :
     (i < j /\ SameLocationAndType(i, j, "now_freezing") /\ ConsecutiveTicks(i, j))
       => AllClearBetween(i, j)

\* the k-th processLocationForecast call of tick p has returned
CallReturned(p, k) == k < Len(tick[p].calls) \/ tick[p].pc # "send"

\* C3: a processLocationForecast call whose analysis has allClear, for a
\* location whose newest record is a warning or a now_freezing (sent or not),
\* records exactly one all_clear; and one for a location whose newest record is
\* already an all_clear records none.
C3_AllClearOnceAfterWarningOrFreezing ==
  \A p \in Procs : \A k \in 1..Len(tick[p].calls) :
     LET c == tick[p].calls[k]
     IN (CallReturned(p, k) /\ c.allClear) =>
          /\ c.prior \in {"warning", "now_freezing"} => c.emits = <<"all_clear">>
          /\ c.prior = "all_clear" => c.emits = <<>>

\* the rows of the location of row j that precede row j
EarlierOfLocation(j) ==
  {i \in 1..(j - 1) : notifications[i].location_id = notifications[j].location_id}

\* C4: every all_clear record of a location directly follows a warning record
\* of that location: never the first record of the location, never right
\* after another all_clear.
C4_AllClearOnlyAfterWarning ==
  \A j \in 1..Len(notifications) :
     notifications[j].notification_type = "all_clear" =>
        /\ EarlierOfLocation(j) # {}
        /\ LET i == CHOOSE i \in EarlierOfLocation(j) :
                       \A h \in EarlierOfLocation(j) : h <= i
           IN notifications[i].notification_type = "warning"

\* C5: one polling tick records at most one warning, now_freezing or all_clear
\* per location.
C5_OneNotificationPerLocationPerTick ==
  \A i, j \in 1..Len(notifications) :
     (/\ i < j
      /\ notifications[i].run = notifications[j].run
      /\ {notifications[i].notification_type, notifications[j].notification_type}
           \subseteq {"warning", "now_freezing", "all_clear"})
       => notifications[i].location_id # notifications[j].location_id

\* C6: two polling ticks that overlap never both record a notification of one
\* type for one location and one condition (the same temperature and forecast
\* time): row j is never written, while the tick that wrote row i is in flight,
\* as a second copy of row i.
C6_NoDuplicateUnderOverlappingTicks ==
  \A i, j \in 1..Len(notifications) :
     (/\ i # j
      /\ notifications[j].run # notifications[i].run
      /\ notifications[j].during = notifications[i].run)
       => ~ /\ notifications[i].location_id = notifications[j].location_id
            /\ notifications[i].notification_type = notifications[j].notification_type
            /\ notifications[i].temperature = notifications[j].temperature
            /\ notifications[i].forecast_time = notifications[j].forecast_time

\* tick p has computed its locationGroups
Grouped(p) == tick[p].run > 0

\* the ids of the members of a group
GroupIds(group) == {group[m].id : m \in 1..Len(group)}

\* C7: every location of the table is a member of at least one group, for every
\* radius >= 0.
C7_EveryLocationInSomeGroup ==
  \A p \in Procs :
     (Grouped(p) /\ GEOCACHE_DISTANCE >= 0) =>
        \A i \in 1..Len(locations) :
           \E g \in 1..Len(tick[p].groups) : locations[i].id \in GroupIds(tick[p].groups[g])

\* C8: no location is a member of two groups.
C8_GroupsDisjoint ==
  \A p \in Procs :
     Grouped(p) =>
        \A g, h \in 1..Len(tick[p].groups) :
           g # h => GroupIds(tick[p].groups[g]) \cap GroupIds(tick[p].groups[h]) = {}

\* C9: every member of a group is within the radius of group[0], the location
\* whose coordinate the group's forecast is fetched for.
C9_MembersWithinRadiusOfRepresentative ==
  \A p \in Procs :
     Grouped(p) =>
        \A g \in 1..Len(tick[p].groups) :
           \A m \in 1..Len(tick[p].groups[g]) :
              getDistance(tick[p].groups[g][1], tick[p].groups[g][m]) <= GEOCACHE_DISTANCE

\* every two locations of the table are within the cache radius of one another
MutuallyNear ==
  \A i, j \in 1..Len(locations) :
     getDistance(locations[i], locations[j]) <= GEOCACHE_DISTANCE

\* C10: a tick that started with no unexpired cache row and has served (has
\* processed a forecast for) locations that all lie within the cache radius of
\* one another has made exactly one provider call.
C10_OneProviderCallForNearbyLocations ==
  \A p \in Procs :
     (/\ Grouped(p)
      /\ tick[p].pc = "idle"
      /\ tick[p].cold
      /\ MutuallyNear
      /\ tick[p].calls # <<>>)
       => tick[p].apiCalls = 1

\* the time a cache row expires at (the time its expires_at spells)
ExpiresAt(row) == row.expires_at[1] * DayLen + row.expires_at[3]

\* the expiry of a cache row has not passed
NotExpired(row) == now < ExpiresAt(row)

\* the rows of the cache at a coordinate whose expiry has not passed
ExactEntries(latitude, longitude) ==
  SelectSeq(cache, LAMBDA row : /\ row.latitude = latitude
                                /\ row.longitude = longitude
                                /\ NotExpired(row))

\* the rows of the cache within the cache radius of a coordinate whose expiry
\* has not passed, in the order of the table
NearbyEntries(latitude, longitude) ==
  SelectSeq(cache, LAMBDA row :
     /\ NotExpired(row)
     /\ getDistance([latitude |-> latitude, longitude |-> longitude], row)
          <= GEOCACHE_DISTANCE)

\* caller c calls getForecast in this step
CallStarts(c) == call[c].pc = "idle" /\ call'[c].pc # "idle"

\* the provider call of caller c returns or fails in this step
CallEnds(c) == call[c].pc = "await" /\ call'[c].pc = "done"

\* C11: a getForecast call that finds no unexpired row at the exact coordinate
\* but an unexpired row within the cache radius returns the data of the first
\* such row, without a provider call and without failing.
C11_NearbyEntryIsServed ==
  [][\A c \in Callers :
       LET exact  == ExactEntries(call'[c].latitude, call'[c].longitude)
           nearby == NearbyEntries(call'[c].latitude, call'[c].longitude)
       IN (CallStarts(c) /\ exact = <<>> /\ nearby # <<>>) =>
             /\ call'[c].pc = "done"
             /\ call'[c].outcome = "returned"
             /\ call'[c].data = JSONparse(nearby[1].data)
             /\ call'[c].apiCalls = 0]_vars

\* C12: a getForecast call that finds no unexpired row at the exact coordinate
\* nor within the cache radius calls the provider, once; when the provider
\* answers, the cache holds a row of that coordinate with the returned data.
C12_MissCallsProviderOnceAndCaches ==
  [][\A c \in Callers :
       /\ (/\ CallStarts(c)
           /\ ExactEntries(call'[c].latitude, call'[c].longitude) = <<>>
           /\ NearbyEntries(call'[c].latitude, call'[c].longitude) = <<>>)
            => (call'[c].pc = "await" /\ call'[c].apiCalls = 1)
       /\ (CallEnds(c) /\ call'[c].outcome = "returned") =>
             /\ call'[c].apiCalls = 1
             /\ \E i \in 1..Len(cache') :
                   /\ cache'[i].latitude = call[c].latitude
                   /\ cache'[i].longitude = call[c].longitude
                   /\ JSONparse(cache'[i].data) = call'[c].data]_vars

\* C13: a getForecast call that finds an unexpired row at the exact coordinate
\* returns the data of that row, calls no provider and leaves the cache as it
\* was.
C13_ExactEntryIsServed ==
  [][\A c \in Callers :
       LET exact == ExactEntries(call'[c].latitude, call'[c].longitude)
       IN (CallStarts(c) /\ exact # <<>>) =>
             /\ call'[c].pc = "done"
             /\ call'[c].outcome = "returned"
             /\ call'[c].data = JSONparse(exact[1].data)
             /\ call'[c].apiCalls = 0
             /\ cache' = cache]_vars

\* C13 witness: a call was served from the row of its coordinate
C13_Witness ==
  \E c \in Callers :
     /\ call[c].pc = "done"
     /\ call[c].outcome = "returned"
     /\ call[c].apiCalls = 0
     /\ ExactEntries(call[c].latitude, call[c].longitude) # <<>>

\* C14: when the provider call fails, getForecast fails with an error that
\* carries the provider's message, returns no data, has called the provider
\* once and leaves the cache as it was.
C14_ProviderFailureIsSurfaced ==
  [][\A c \in Callers :
       (CallEnds(c) /\ call'[c].rejected # <<>>) =>
          /\ call'[c].outcome = "failed"
          /\ call'[c].error # <<>>
          /\ call'[c].error[Len(call'[c].error)] = call'[c].rejected[1]
          /\ call'[c].data = <<>>
          /\ call'[c].apiCalls = 1
          /\ cache' = cache]_vars

\* C14 witness: a provider call has failed while the cache held a row of the
\* requested coordinate
C14_Witness ==
  \E c \in Callers :
     /\ call[c].pc = "done"
     /\ call[c].rejected # <<>>
     /\ \E i \in 1..Len(cache) : /\ cache[i].latitude = call[c].latitude
                                  /\ cache[i].longitude = call[c].longitude

\* C15: as long as the expiry of the last upsert of a coordinate has not
\* passed, getWeatherCache on that coordinate yields a row whose data parse to
\* the series that was upserted last.
C15_PutThenGetRoundTrip ==
  \A p \in puts :
     now < p.at + GEOCACHE_EXPIRY =>
        LET got == getWeatherCache(cache, p.latitude, p.longitude)
        IN got # <<>> /\ JSONparse(got[1].data) = p.series

\* C15 witness: two calls have upserted different series for one coordinate,
\* and the expiry of the later upsert has not passed
C15_Witness ==
  /\ \A c \in Callers : /\ call[c].pc = "done"
                         /\ call[c].outcome = "returned"
                         /\ call[c].apiCalls = 1
  /\ call[1].latitude = call[2].latitude
  /\ call[1].longitude = call[2].longitude
  /\ call[1].data # call[2].data
  /\ \E p \in puts : /\ p.latitude = call[1].latitude
                      /\ p.longitude = call[1].longitude
                      /\ now < p.at + GEOCACHE_EXPIRY

\* C16: a getForecast call is never served from a cache row whose expiry has
\* passed: data returned without a provider call are the data of a row of the
\* requested coordinate, or of one within the cache radius, that has not
\* expired.
C16_ExpiredEntryIsNotServed ==
  [][\A c \in Callers :
       (CallStarts(c) /\ call'[c].outcome = "returned") =>
          \E i \in 1..Len(cache) :
             /\ NotExpired(cache[i])
             /\ getDistance(call'[c], cache[i]) <= GEOCACHE_DISTANCE
             /\ JSONparse(cache[i].data) = call'[c].data]_vars

\* the rows of a table at the coordinate of a call
RowsOf(table, this) ==
  {i \in 1..Len(table) : /\ table[i].latitude = this.latitude
                         /\ table[i].longitude = this.longitude}

\* C17: the cache never holds two rows of one coordinate, and the upsert of a
\* call whose coordinate has a row overwrites the data and the expiry of that
\* row instead of adding a row.
C17_OneEntryPerCoordinate ==
  [][/\ \A i, j \in 1..Len(cache') :
          (/\ cache'[i].latitude = cache'[j].latitude
           /\ cache'[i].longitude = cache'[j].longitude) => i = j
     /\ \A c \in Callers :
          (CallEnds(c) /\ call'[c].outcome = "returned") =>
             /\ Len(cache') = Len(cache) + (IF RowsOf(cache, call[c]) = {} THEN 1 ELSE 0)
             /\ \A i \in RowsOf(cache', call[c]) :
                   /\ cache'[i].data = JSONstringify(call'[c].data)
                   /\ cache'[i].expires_at = toISOString(now + GEOCACHE_EXPIRY)
             /\ \A i \in (1..Len(cache)) \ RowsOf(cache, call[c]) :
                   cache'[i] = cache[i]]_vars

\* C17 witness: two calls for one coordinate have both called the provider and
\* upserted, a sweep has run, and the table holds one row of that coordinate
C17_Witness ==
  /\ \A c \in Callers : /\ call[c].pc = "done"
                         /\ call[c].outcome = "returned"
                         /\ call[c].apiCalls = 1
  /\ call[1].latitude = call[2].latitude
  /\ call[1].longitude = call[2].longitude
  /\ sweeps > 0
  /\ Cardinality(RowsOf(cache, call[1])) = 1
  /\ Len(cache) = 2

\* C18: a run of cleanupWeatherCache leaves in the cache exactly the rows whose
\* expiry has not passed, unchanged and in their order.
C18_SweepRemovesExpiredOnly ==
  [][sweeps' # sweeps => cache' = SelectSeq(cache, NotExpired)]_vars

\* C19: after every analyzeForecast call the caller's list holds the points it
\* held before the call, in the same order.
C19_AnalyzeLeavesInputUnchanged ==
  \A k \in 1..Len(analyses) : analyses[k].after = analyses[k].before

\* C20: two analyzeForecast calls on the same list return the same analysis,
\* whatever time passed between them.
C20_AnalyzeIsPure ==
  \A i, j \in 1..Len(analyses) :
     analyses[i].before = analyses[j].before =>
        analyses[i].result = analyses[j].result

\* the points of a list are in ascending order of dt
IsAscending(list) ==
  \A i, j \in 1..Len(list) : i < j => list[i].dt <= list[j].dt

\* C21: analyzeForecast returns the same analysis for a list in ascending
\* order of dt (equal dt allowed) and for every permutation of it.
C21_SortInvariance ==
  \A i, j \in 1..Len(analyses) :
     (/\ IsAscending(analyses[i].before)
      /\ IsPermutation(analyses[j].before, analyses[i].before))
       => analyses[j].result = analyses[i].result

\* the indices of the points of a list at or below the threshold
FreezingPoints(list) == {i \in 1..Len(list) : list[i].temp <= TEMP_THRESHOLD}

\* C22: for a non-empty list, allClear is true exactly if no point is at or
\* below the threshold, and allClear excludes isBelowFreezing and
\* willFreezeSoon.
C22_AllClearIffNoFreezingPoint ==
  \A k \in 1..Len(analyses) :
     LET a == analyses[k]
     IN a.before # <<>> =>
          /\ a.result.allClear <=> (FreezingPoints(a.before) = {})
          /\ a.result.allClear =>
                (~a.result.isBelowFreezing /\ ~a.result.willFreezeSoon)

\* C22 witness: a list of two points above the threshold was analysed and
\* found all clear
C22_Witness ==
  \E k \in 1..Len(analyses) :
     /\ Len(analyses[k].before) >= 2
     /\ analyses[k].result.allClear

\* the earliest dt of the points i \in among of a list
EarliestDt(list, among) ==
  LET i == CHOOSE i \in among : \A j \in among : list[i].dt <= list[j].dt
  IN list[i].dt

\* C23: for a non-empty list, willFreezeSoon is true exactly if a point at or
\* below the threshold exists and the earliest one lies after the list's
\* earliest point (the "now" reading) by at most the warning window.
C23_WillFreezeSoonFromSeriesStart ==
  \A k \in 1..Len(analyses) :
     LET a      == analyses[k]
         t0     == EarliestDt(a.before, 1..Len(a.before))
         first  == EarliestDt(a.before, FreezingPoints(a.before))
     IN a.before # <<>> =>
          (a.result.willFreezeSoon <=>
             (/\ FreezingPoints(a.before) # {}
              /\ first > t0
              /\ first - t0 <= WARNING_TIME))

\* C24: for a non-empty list, freezingForecast and freezingTime are absent if no
\* point is at or below the threshold, and otherwise are a point at or below
\* the threshold of the earliest dt among those points, and its dt.
C24_FirstFreezeIsEarliest ==
  \A k \in 1..Len(analyses) :
     LET a      == analyses[k]
         frozen == FreezingPoints(a.before)
     IN a.before # <<>> =>
          IF frozen = {}
          THEN a.result.freezingForecast = <<>> /\ a.result.freezingTime = <<>>
          ELSE /\ a.result.freezingForecast # <<>>
               /\ \E i \in frozen : a.result.freezingForecast[1] = a.before[i]
               /\ a.result.freezingForecast[1].dt = EarliestDt(a.before, frozen)
               /\ a.result.freezingTime = <<EarliestDt(a.before, frozen)>>

\* C24 witness: a list with two points at or below the threshold at different
\* times, the later one first, was analysed
C24_Witness ==
  \E k \in 1..Len(analyses) :
     LET a == analyses[k]
     IN /\ Len(a.before) >= 2
        /\ {1, 2} \subseteq FreezingPoints(a.before)
        /\ a.before[1].dt > a.before[2].dt
        /\ a.result.freezingTime = <<a.before[2].dt>>

\* the if-blocks of processLocationForecast whose condition holds for an
\* analysis and a latestWarning
StagesTaken(analysis, latestWarning) ==
  {stage \in 1..3 :
     StageCondition([stage |-> stage, an |-> analysis, latest |-> latestWarning])}

\* C30: for every analysis analyzeForecast returns, that of an empty list
\* included, at most one of the three conditions of processLocationForecast
\* holds, whatever latestWarning is, so a call records at most one notification.
C30_ConditionsMutuallyExclusive ==
  \A k \in 1..Len(analyses) :
     \A latestWarning \in {"none", "sent", "unsent"} :
        Cardinality(StagesTaken(analyses[k].result, latestWarning)) <= 1

\* C30 witness: the analysis of an empty list, for which the all_clear
\* condition holds after an unsent warning
C30_Witness ==
  \E k \in 1..Len(analyses) :
     /\ analyses[k].before = <<>>
     /\ StagesTaken(analyses[k].result, "unsent") = {3}

\* C25: analyzeForecast on an empty list fails instead of returning an
\* analysis, and a processLocationForecast call on a forecast with an empty
\* list records no notification.
C25_EmptySeriesIsRejected ==
  \A p \in Procs : \A k \in 1..Len(tick[p].calls) :
     tick[p].calls[k].empty =>
        /\ ~tick[p].calls[k].analysed
        /\ tick[p].calls[k].emits = <<>>

\* the ids of the locations a tick called processLocationForecast for, in order
ProcessedIds(t) == [k \in 1..Len(t.calls) |-> t.calls[k].location_id]

\* the ids of the members of the groups from gi on whose forecast was obtained
RECURSIVE MemberIdsFrom(_, _)
MemberIdsFrom(t, gi) ==
  IF gi > Len(t.groups) THEN <<>>
  ELSE (IF gi \in t.skipped THEN <<>>
        ELSE [m \in 1..Len(t.groups[gi]) |-> t.groups[gi][m].id])
       \o MemberIdsFrom(t, gi + 1)

TickDone(p) == tick[p].pc = "idle" /\ tick[p].run > 0

C29_EveryTickTerminates ==
  \A p \in Procs : [](tick[p].pc # "idle" => <>(tick[p].pc = "idle"))

\* the location ids the stored content of a notifications row holds: the
\* table has the column location_id and no column for additional data
ListedLocations(row) == {row.location_id}

MorningSummariesOf(userId) ==
  {i \in 1..Len(notifications) :
     /\ notifications[i].notification_type = "morning_summary"
     /\ \E k \in 1..Len(locations) :
          /\ locations[k].id = notifications[i].location_id
          /\ locations[k].user_id = userId}

\* C27: when the daily trigger has dealt with a user, a user with locations
\* whose analysis has morningWarning has exactly one morning_summary row,
\* whose stored content lists all those locations, and a user without such
\* a location has none.
C27_OneSummaryListingAllLocations ==
  \A k \in 1..Len(morning.summaries) :
     LET s == morning.summaries[k]
     IN IF s.freezingLocations = <<>>
        THEN MorningSummariesOf(s.user_id) = {}
        ELSE /\ MorningSummariesOf(s.user_id) = {s.row}
             /\ ListedLocations(notifications[s.row])
                  = {s.freezingLocations[i] : i \in 1..Len(s.freezingLocations)}

\* C28: a location a /remove command validly named is no longer in the
\* store, whether or not notifications were recorded for it.
C28_RemoveDeletesLocation ==
  \A id \in removed : \A i \in 1..Len(locations) : locations[i].id # id

\* the delivery call for row i was awaited and returns successfully in this step
DeliveryReturned(i) ==
  \/ \E p \in Procs : tick[p].pc = "send" /\ tick[p].nid = i /\ DeliverOk(p)
  \/ startup.pc = "send" /\ startup.nid = i /\ StartupDeliverOk

\* a failed delivery leaves the sent flag of its row as it was
FailedDeliveryKeepsFlag ==
  /\ \A p \in Procs :
        DeliverFail(p) => ~notifications'[tick[p].nid].sent
  /\ StartupDeliverFail => ~notifications'[startup.nid].sent

\* every delivery awaited is the delivery of an unsent row
DeliveriesAreOfUnsentRows ==
  /\ \A p \in Procs : tick[p].pc = "send" => ~notifications[tick[p].nid].sent
  /\ startup.pc = "send" => ~notifications[startup.nid].sent

\* C31: the sent flag of a row changes only from unsent to sent and only in
\* the step in which the delivery call for that row returns successfully; a
\* failed delivery leaves the row unsent; no delivery is made for a row that
\* is sent.
C31_SentOnlyAfterDelivery ==
  /\ [][/\ \A i \in 1..Len(notifications) :
             notifications'[i].sent # notifications[i].sent =>
                /\ ~notifications[i].sent
                /\ notifications'[i].sent
                /\ DeliveryReturned(i)
        /\ FailedDeliveryKeepsFlag]_vars
  /\ []DeliveriesAreOfUnsentRows

\* the process started again and delivered a row whose delivery had failed
\* in a tick, while the delivery of another row failed and left it unsent
C31_Witness ==
  \E i, j \in 1..Len(notifications) :
     /\ i \in startup.attempted
     /\ notifications[i].sent
     /\ ~notifications[j].sent
     /\ \A p \in Procs : tick[p].pc = "idle"
     /\ startup.pc = "done"

\* C32: when processAllPendingNotifications has returned, delivery was
\* attempted for every row that was unsent and scheduled for no later than
\* the time of the process' start; and no polling tick is in flight before it
\* has returned.
C32_StartupDeliversEveryDueRecord ==
  /\ startup.pc = "done" => startup.due \subseteq startup.attempted
  /\ \A p \in Procs : tick[p].pc # "idle" => startup.pc = "done"

=============================================================================
